---------------------------- MODULE Spec2Model ----------------------------
(***************************************************************************)
(* A model of the XBee Series 1 payload codec of xbee1.py: build_command,  *)
(* split_response and parse_samples, each run as a small state machine     *)
(* whose steps are the iterations of the function's loops.  Byte strings   *)
(* are sequences of integers 0..255; a Python dictionary is a function     *)
(* whose DOMAIN is its key set; None and a raised exception are explicit   *)
(* values.                                                                 *)
(***************************************************************************)
EXTENDS Integers, Sequences, FiniteSets, TLC

VARIABLES
    fn,             \* the function being run
    pc,             \* "call", "loop", "after_loop", "returned", "raised"
    cmd,            \* build_command: the cmd argument
    kwargs,         \* build_command: the keyword arguments
    data,           \* split_response / parse_samples: the data argument
    cmd_spec,       \* build_command: the command's layout (None until looked up)
    packet_spec,    \* split_response: the response's layout (None until looked up)
    packet,         \* build_command: the packet built so far
    info,           \* split_response: the result dictionary built so far
    index,          \* split_response: current byte index
    n,              \* position in the 'order' list (1-based) of the running loop
    len_samples,    \* parse_samples: number of samples announced
    dio_enabled,    \* parse_samples: enabled digital lines, in list order
    adc_enabled,    \* parse_samples: enabled analog lines, in list order
    samples,        \* parse_samples: the samples decoded so far
    byte_pos,       \* parse_samples: current byte position
    i,              \* parse_samples: index of the sample loop
    ret,            \* the value returned (None until the function returns)
    exc             \* the exception raised (NoExc until the function raises)

vars == <<fn, pc, cmd, kwargs, data, cmd_spec, packet_spec, packet, info, index, n, len_samples,
          dio_enabled, adc_enabled, samples, byte_pos, i, ret, exc>>

-----------------------------------------------------------------------------
(* Python values *)

None == [has |-> FALSE]
Some(v) == [has |-> TRUE, val |-> v]

\* Python truth of a byte string or None ("if data:")
TruthyStr(d) == d.has /\ d.val # <<>>

\* Python truth of an integer or None ("... and cmd_spec[param] and ...")
TruthyInt(x) == x.has /\ x.val # 0

NoExc == [type |-> "None", msg |-> "", args |-> <<>>]
Raise(type, msg, args) == [type |-> type, msg |-> msg, args |-> args]

EmptyDict == [k \in {} |-> <<>>]
DictSet(d, k, v) == [x \in DOMAIN d \cup {k} |-> IF x = k THEN v ELSE d[x]]

\* data[a:b] on a byte string, a and b 0-based and non-negative
Slice(s, a, b) ==
    LET hi == IF b < Len(s) THEN b ELSE Len(s)
    IN  IF a >= hi THEN <<>> ELSE [k \in 1..(hi - a) |-> s[a + k]]

\* data[a:]
SliceFrom(s, a) == Slice(s, a, Len(s))

-----------------------------------------------------------------------------
(* The layout tables *)

api_commands ==
    [at |-> [id        |-> <<8>>,
             frame_id  |-> Some(1),
             command   |-> Some(2),
             parameter |-> None,
             order     |-> <<"frame_id", "command", "parameter">>]]

api_responses ==
    (138 :> [id     |-> "status",
             status |-> Some(1),
             order  |-> <<"status">>])
    @@
    (136 :> [id        |-> "at_response",
             frame_id  |-> Some(1),
             command   |-> Some(2),
             status    |-> Some(1),
             parameter |-> None,
             order     |-> <<"frame_id", "command", "status", "parameter">>])

reserved_names == {"id", "order"}

-----------------------------------------------------------------------------
(* Bounds of the explored inputs *)

\* longest keyword-argument value given to build_command
MaxArgLen == 2

\* bytes the keyword-argument values are made of: 'A', 'M', 'Y'
ArgBytes == {65, 77, 89}

\* command names tried: the known one and an unknown one
CmdNames == {"at", "tx"}

\* the byte strings over S of length at most k
SeqsUpTo(S, k) == UNION {[1..m -> S] : m \in 0..k}

ParamNames == {"frame_id", "command", "parameter"}

\* every dictionary of keyword arguments over ParamNames
KwargsSet ==
    UNION { [D -> SeqsUpTo(ArgBytes, MaxArgLen)] : D \in SUBSET ParamNames }

-----------------------------------------------------------------------------
(* build_command *)

\* BuildParam with the KeyError of a missing field swallowed for every field
\* (the "is not None" test dropped): a missing field is treated as not given.
BuildParam_IgnoreMissing(c_spec, kw, param, pkt) ==
    IF param \in reserved_names
    THEN [exc |-> NoExc, packet |-> pkt]
    ELSE LET d == IF param \in DOMAIN kw THEN Some(kw[param]) ELSE None
         IN  IF TruthyStr(d) /\ TruthyInt(c_spec[param])
                /\ Len(d.val) # c_spec[param].val
             THEN [exc |-> Raise("ValueError", "The data provided was not bytes long",
                                 <<c_spec[param].val>>),
                   packet |-> pkt]
             ELSE [exc |-> NoExc,
                   packet |-> IF TruthyStr(d) THEN pkt \o d.val ELSE pkt]

\* BuildParam with the field's bytes put in front of the packet instead of
\* behind it.
BuildParam_Prepend(c_spec, kw, param, pkt) ==
    IF param \in reserved_names
    THEN [exc |-> NoExc, packet |-> pkt]
    ELSE IF param \notin DOMAIN kw /\ c_spec[param].has
    THEN [exc |-> Raise("KeyError", "The expected field was not provided",
                        <<param, c_spec[param].val>>),
          packet |-> pkt]
    ELSE LET d == IF param \in DOMAIN kw THEN Some(kw[param]) ELSE None
         IN  IF TruthyStr(d) /\ TruthyInt(c_spec[param])
                /\ Len(d.val) # c_spec[param].val
             THEN [exc |-> Raise("ValueError", "The data provided was not bytes long",
                                 <<c_spec[param].val>>),
                   packet |-> pkt]
             ELSE [exc |-> NoExc,
                   packet |-> IF TruthyStr(d) THEN d.val \o pkt ELSE pkt]

\* One iteration of the loop over cmd_spec['order']: the exception raised,
\* or the packet after the iteration.
BuildParam(c_spec, kw, param, pkt) ==
    IF param \in reserved_names
    THEN [exc |-> NoExc, packet |-> pkt]
    ELSE IF param \notin DOMAIN kw /\ c_spec[param].has
    THEN [exc |-> Raise("KeyError", "The expected field was not provided",
                        <<param, c_spec[param].val>>),
          packet |-> pkt]
    ELSE LET d == IF param \in DOMAIN kw THEN Some(kw[param]) ELSE None
         IN  IF TruthyStr(d) /\ TruthyInt(c_spec[param])
                /\ Len(d.val) # c_spec[param].val
             THEN [exc |-> Raise("ValueError", "The data provided was not bytes long",
                                 <<c_spec[param].val>>),
                   packet |-> pkt]
             ELSE [exc |-> NoExc,
                   packet |-> IF TruthyStr(d) THEN pkt \o d.val ELSE pkt]

BuildLookup ==
    /\ fn = "build_command" /\ pc = "call"
    /\ IF cmd \in DOMAIN api_commands
       THEN /\ cmd_spec' = Some(api_commands[cmd])
            /\ packet' = api_commands[cmd].id
            /\ n' = 1
            /\ pc' = "loop"
            /\ exc' = exc
       ELSE /\ exc' = Raise("KeyError", "cmd", <<cmd>>)
            /\ pc' = "raised"
            /\ UNCHANGED <<cmd_spec, packet, n>>
    /\ UNCHANGED <<fn, cmd, kwargs, data, packet_spec, info, index, len_samples,
                   dio_enabled, adc_enabled, samples, byte_pos, i, ret>>

BuildLoop ==
    /\ fn = "build_command" /\ pc = "loop"
    /\ n <= Len(cmd_spec.val.order)
    /\ LET r == BuildParam(cmd_spec.val, kwargs, cmd_spec.val.order[n], packet)
       IN  IF r.exc.type # "None"
           THEN /\ exc' = r.exc
                /\ pc' = "raised"
                /\ UNCHANGED <<packet, n>>
           ELSE /\ packet' = r.packet
                /\ n' = n + 1
                /\ UNCHANGED <<pc, exc>>
    /\ UNCHANGED <<fn, cmd, kwargs, data, cmd_spec, packet_spec, info, index,
                   len_samples, dio_enabled, adc_enabled, samples, byte_pos, i, ret>>

BuildReturn ==
    /\ fn = "build_command" /\ pc = "loop"
    /\ n > Len(cmd_spec.val.order)
    /\ ret' = Some(packet)
    /\ pc' = "returned"
    /\ UNCHANGED <<fn, cmd, kwargs, data, cmd_spec, packet_spec, packet, info, index,
                   n, len_samples, dio_enabled, adc_enabled, samples, byte_pos, i, exc>>

InitBuild ==
    /\ fn = "build_command" /\ pc = "call"
    /\ cmd \in CmdNames
    /\ kwargs \in KwargsSet
    /\ data = <<>>
    /\ cmd_spec = None /\ packet_spec = None
    /\ packet = <<>> /\ info = EmptyDict /\ index = 0 /\ n = 0
    /\ len_samples = 0 /\ dio_enabled = <<>> /\ adc_enabled = <<>>
    /\ samples = <<>> /\ byte_pos = 0 /\ i = 0
    /\ ret = None /\ exc = NoExc

NextBuild == BuildLookup \/ BuildLoop \/ BuildReturn

SpecBuild == InitBuild /\ [][NextBuild]_vars


-----------------------------------------------------------------------------
(* split_response *)

\* longest payload given to split_response
MaxDataLen == 7

\* bytes the payloads are made of: an unknown identifier ('\x23') and the two
\* known ones
RespBytes == {35, 136, 138}

\* LookupResponse reading the last byte of data instead of the first.
LookupResponse_LastByte(d) ==
    IF Len(d) = 0
    THEN [exc |-> Raise("IndexError", "string index out of range", <<>>),
          spec |-> None]
    ELSE IF d[Len(d)] \notin DOMAIN api_responses
    THEN [exc |-> Raise("KeyError", "Unrecognized response packet with id byte",
                        <<d[Len(d)]>>),
          spec |-> None]
    ELSE [exc |-> NoExc, spec |-> Some(api_responses[d[Len(d)]])]

\* packet_spec = XBee1.api_responses[data[0]], with the exceptions of the
\* indexing (not caught) and of the lookup (caught and raised again)
LookupResponse(d) ==
    IF Len(d) = 0
    THEN [exc |-> Raise("IndexError", "string index out of range", <<>>),
          spec |-> None]
    ELSE IF d[1] \notin DOMAIN api_responses
    THEN [exc |-> Raise("KeyError", "Unrecognized response packet with id byte",
                        <<d[1]>>),
          spec |-> None]
    ELSE [exc |-> NoExc, spec |-> Some(api_responses[d[1]])]

\* SplitParam whose length test is off by one (>= for >).
SplitParam_OffByOne(p_spec, d, param, idx, inf) ==
    IF param \in reserved_names
    THEN [exc |-> NoExc, info |-> inf, index |-> idx, brk |-> FALSE]
    ELSE LET field_len == p_spec[param]
         IN  IF field_len.has
             THEN IF idx + field_len.val >= Len(d)
                  THEN [exc |-> Raise("ValueError",
                                      "Response packet was shorter than expected", <<>>),
                        info |-> inf, index |-> idx, brk |-> FALSE]
                  ELSE [exc |-> NoExc,
                        info |-> DictSet(inf, param, Slice(d, idx, idx + field_len.val)),
                        index |-> idx + field_len.val,
                        brk |-> FALSE]
             ELSE LET field == SliceFrom(d, idx)
                  IN  IF field # <<>>
                      THEN [exc |-> NoExc, info |-> DictSet(inf, param, field),
                            index |-> idx + Len(field), brk |-> TRUE]
                      ELSE [exc |-> NoExc, info |-> inf, index |-> idx, brk |-> TRUE]

\* SplitParam storing the variable-length field also when no byte remains.
SplitParam_StoreEmpty(p_spec, d, param, idx, inf) ==
    IF param \in reserved_names
    THEN [exc |-> NoExc, info |-> inf, index |-> idx, brk |-> FALSE]
    ELSE LET field_len == p_spec[param]
         IN  IF field_len.has
             THEN IF idx + field_len.val > Len(d)
                  THEN [exc |-> Raise("ValueError",
                                      "Response packet was shorter than expected", <<>>),
                        info |-> inf, index |-> idx, brk |-> FALSE]
                  ELSE [exc |-> NoExc,
                        info |-> DictSet(inf, param, Slice(d, idx, idx + field_len.val)),
                        index |-> idx + field_len.val,
                        brk |-> FALSE]
             ELSE LET field == SliceFrom(d, idx)
                  IN  [exc |-> NoExc, info |-> DictSet(inf, param, field),
                       index |-> idx + Len(field), brk |-> TRUE]

\* One iteration of the loop over packet_spec['order']: the exception raised,
\* or info and index after the iteration and whether the loop was left by
\* break.
SplitParam(p_spec, d, param, idx, inf) ==
    IF param \in reserved_names
    THEN [exc |-> NoExc, info |-> inf, index |-> idx, brk |-> FALSE]
    ELSE LET field_len == p_spec[param]
         IN  IF field_len.has
             THEN IF idx + field_len.val > Len(d)
                  THEN [exc |-> Raise("ValueError",
                                      "Response packet was shorter than expected", <<>>),
                        info |-> inf, index |-> idx, brk |-> FALSE]
                  ELSE [exc |-> NoExc,
                        info |-> DictSet(inf, param, Slice(d, idx, idx + field_len.val)),
                        index |-> idx + field_len.val,
                        brk |-> FALSE]
             ELSE LET field == SliceFrom(d, idx)
                  IN  IF field # <<>>
                      THEN [exc |-> NoExc, info |-> DictSet(inf, param, field),
                            index |-> idx + Len(field), brk |-> TRUE]
                      ELSE [exc |-> NoExc, info |-> inf, index |-> idx, brk |-> TRUE]

SplitLookup ==
    /\ fn = "split_response" /\ pc = "call"
    /\ LET r == LookupResponse(data)
       IN  IF r.exc.type # "None"
           THEN /\ exc' = r.exc
                /\ pc' = "raised"
                /\ UNCHANGED <<packet_spec, info, index, n>>
           ELSE /\ packet_spec' = r.spec
                /\ index' = 1
                /\ info' = DictSet(EmptyDict, "id", r.spec.val.id)
                /\ n' = 1
                /\ pc' = "loop"
                /\ exc' = exc
    /\ UNCHANGED <<fn, cmd, kwargs, data, cmd_spec, packet, len_samples, dio_enabled,
                   adc_enabled, samples, byte_pos, i, ret>>

SplitLoop ==
    /\ fn = "split_response" /\ pc = "loop"
    /\ n <= Len(packet_spec.val.order)
    /\ LET r == SplitParam(packet_spec.val, data, packet_spec.val.order[n], index, info)
       IN  IF r.exc.type # "None"
           THEN /\ exc' = r.exc
                /\ pc' = "raised"
                /\ UNCHANGED <<info, index, n>>
           ELSE /\ info' = r.info
                /\ index' = r.index
                /\ n' = n + 1
                /\ pc' = IF r.brk THEN "after_loop" ELSE "loop"
                /\ exc' = exc
    /\ UNCHANGED <<fn, cmd, kwargs, data, cmd_spec, packet_spec, packet, len_samples,
                   dio_enabled, adc_enabled, samples, byte_pos, i, ret>>

\* the statements after the loop, reached by its end or by break: the test
\* for left-over bytes and the return
SplitFinish ==
    /\ fn = "split_response"
    /\ pc = "after_loop" \/ (pc = "loop" /\ n > Len(packet_spec.val.order))
    /\ IF index < Len(data)
       THEN /\ exc' = Raise("ValueError", "Response packet was longer than expected", <<>>)
            /\ pc' = "raised"
            /\ ret' = ret
       ELSE /\ ret' = Some(info)
            /\ pc' = "returned"
            /\ exc' = exc
    /\ UNCHANGED <<fn, cmd, kwargs, data, cmd_spec, packet_spec, packet, info, index,
                   n, len_samples, dio_enabled, adc_enabled, samples, byte_pos, i>>

InitSplit ==
    /\ fn = "split_response" /\ pc = "call"
    /\ data \in SeqsUpTo(RespBytes, MaxDataLen)
    /\ cmd = "" /\ kwargs = EmptyDict
    /\ cmd_spec = None /\ packet_spec = None
    /\ packet = <<>> /\ info = EmptyDict /\ index = 0 /\ n = 0
    /\ len_samples = 0 /\ dio_enabled = <<>> /\ adc_enabled = <<>>
    /\ samples = <<>> /\ byte_pos = 0 /\ i = 0
    /\ ret = None /\ exc = NoExc

NextSplit == SplitLookup \/ SplitLoop \/ SplitFinish

SpecSplit == InitSplit /\ [][NextSplit]_vars

-----------------------------------------------------------------------------
(* parse_samples *)

\* largest sample count byte tried
MaxSamples == 2

\* longest run of bytes after the three header bytes
MaxBodyLen == 8

\* bytes the sample records are made of: 01010101 and 10101010
SampleBytes == {85, 170}

\* first mask byte (DIO8 and ADC0..5) and second mask byte (DIO0..7) tried
HighMasks == {0, 1, 2, 3, 4, 128}
LowMasks == {0, 8, 85, 170}

Byte == 0..255

RECURSIVE Pow2(_)
Pow2(k) == IF k = 0 THEN 1 ELSE 2 * Pow2(k - 1)

\* Python's a & b for b >= 0: bit by bit, a negative a read as two's
\* complement of unbounded width (floor division and modulus)
RECURSIVE BitAnd(_, _)
BitAnd(a, b) ==
    IF b = 0 THEN 0
    ELSE (IF a % 2 = 1 /\ b % 2 = 1 THEN 1 ELSE 0) + 2 * BitAnd(a \div 2, b \div 2)

\* struct.unpack("> h", value_raw)[0] read little-endian.
unpack_h_LittleEndian(value_raw) ==
    LET u == 256 * value_raw[2] + value_raw[1]
    IN  IF u >= 32768 THEN u - 65536 ELSE u

\* struct.unpack("> h", value_raw)[0] on two bytes: big-endian, signed
unpack_h(value_raw) ==
    LET u == 256 * value_raw[1] + value_raw[2]
    IN  IF u >= 32768 THEN u - 65536 ELSE u

\* "dio-%d" % dio and "adc-%d" % adc
DioKey(dio) ==
    <<"dio-0", "dio-1", "dio-2", "dio-3", "dio-4", "dio-5", "dio-6", "dio-7",
      "dio-8">>[dio + 1]
AdcKey(adc) ==
    <<"adc-0", "adc-1", "adc-2", "adc-3", "adc-4", "adc-5">>[adc + 1]

\* ParseHeader testing DIO8 against bit 0 of the second mask byte.
ParseHeader_Dio8LowByte(d) ==
    IF Len(d) = 0 \/ Len(Slice(d, 1, 3)) < 2
    THEN [exc |-> Raise("IndexError", "string index out of range", <<>>),
          len_samples |-> 0, dio_enabled |-> <<>>, adc_enabled |-> <<>>]
    ELSE LET sources_raw == Slice(d, 1, 3)
             byte_2_data == sources_raw[2]
             byte_1_data == sources_raw[1]
             dio_low == SelectSeq(<<0, 1, 2, 3, 4, 5, 6, 7>>,
                                  LAMBDA dio : BitAnd(byte_2_data, Pow2(dio)) # 0)
         IN  [exc |-> NoExc,
              len_samples |-> d[1],
              dio_enabled |-> IF BitAnd(byte_2_data, 1) # 0
                              THEN Append(dio_low, 8) ELSE dio_low,
              adc_enabled |-> SelectSeq(<<0, 1, 2, 3, 4, 5>>,
                                  LAMBDA adc : BitAnd(byte_1_data, Pow2(adc + 1)) # 0)]

\* The header, bytes 0-2: the exception raised by an index out of range, or
\* the sample count and the lists of enabled lines.
ParseHeader(d) ==
    IF Len(d) = 0 \/ Len(Slice(d, 1, 3)) < 2
    THEN [exc |-> Raise("IndexError", "string index out of range", <<>>),
          len_samples |-> 0, dio_enabled |-> <<>>, adc_enabled |-> <<>>]
    ELSE LET sources_raw == Slice(d, 1, 3)
             byte_2_data == sources_raw[2]
             byte_1_data == sources_raw[1]
             dio_low == SelectSeq(<<0, 1, 2, 3, 4, 5, 6, 7>>,
                                  LAMBDA dio : BitAnd(byte_2_data, Pow2(dio)) # 0)
         IN  [exc |-> NoExc,
              len_samples |-> d[1],
              dio_enabled |-> IF BitAnd(byte_1_data, 1) # 0
                              THEN Append(dio_low, 8) ELSE dio_low,
              adc_enabled |-> SelectSeq(<<0, 1, 2, 3, 4, 5>>,
                                  LAMBDA adc : BitAnd(byte_1_data, Pow2(adc + 1)) # 0)]

\* The loop over dio_enabled from its k-th entry on: values[0] serves line
\* 8 and values[1] lines 0-7; an index beyond values raises IndexError.
RECURSIVE ReadDio(_, _, _, _)
ReadDio(values, dios, k, sample) ==
    IF k > Len(dios) THEN [exc |-> NoExc, sample |-> sample]
    ELSE LET dio == dios[k]
         IN  IF dio > 7
             THEN IF Len(values) < 1
                  THEN [exc |-> Raise("IndexError", "string index out of range", <<>>),
                        sample |-> sample]
                  ELSE ReadDio(values, dios, k + 1,
                               DictSet(sample, DioKey(dio),
                                       BitAnd(values[1], Pow2(dio - 8)) # 0))
             ELSE IF Len(values) < 2
                  THEN [exc |-> Raise("IndexError", "string index out of range", <<>>),
                        sample |-> sample]
                  ELSE ReadDio(values, dios, k + 1,
                               DictSet(sample, DioKey(dio),
                                       BitAnd(values[2], Pow2(dio)) # 0))

\* The loop over adc_enabled from its k-th entry on: two bytes per line;
\* struct.unpack raises struct.error unless it is given exactly two bytes.
RECURSIVE ReadAdc(_, _, _, _, _)
ReadAdc(d, pos, adcs, k, sample) ==
    IF k > Len(adcs) THEN [exc |-> NoExc, sample |-> sample, byte_pos |-> pos]
    ELSE LET value_raw == Slice(d, pos, pos + 2)
         IN  IF Len(value_raw) # 2
             THEN [exc |-> Raise("struct.error",
                                 "unpack requires a string argument of length 2", <<>>),
                   sample |-> sample, byte_pos |-> pos]
             ELSE ReadAdc(d, pos + 2, adcs, k + 1,
                          DictSet(sample, AdcKey(adcs[k]),
                                  BitAnd(unpack_h(value_raw), 1023)))

\* One iteration of the loop over the samples: the exception raised, or the
\* sample and the byte position after it.
ParseRecord(d, pos, dios, adcs) ==
    LET dig == IF dios # <<>>
               THEN ReadDio(Slice(d, pos, pos + 2), dios, 1, EmptyDict)
               ELSE [exc |-> NoExc, sample |-> EmptyDict]
        pos2 == IF dios # <<>> THEN pos + 2 ELSE pos
    IN  IF dig.exc.type # "None"
        THEN [exc |-> dig.exc, sample |-> dig.sample, byte_pos |-> pos]
        ELSE IF adcs # <<>>
        THEN ReadAdc(d, pos2, adcs, 1, dig.sample)
        ELSE [exc |-> NoExc, sample |-> dig.sample, byte_pos |-> pos2]

SamplesHeader ==
    /\ fn = "parse_samples" /\ pc = "call"
    /\ LET h == ParseHeader(data)
       IN  IF h.exc.type # "None"
           THEN /\ exc' = h.exc
                /\ pc' = "raised"
                /\ UNCHANGED <<len_samples, dio_enabled, adc_enabled, byte_pos>>
           ELSE /\ len_samples' = h.len_samples
                /\ dio_enabled' = h.dio_enabled
                /\ adc_enabled' = h.adc_enabled
                /\ byte_pos' = 3
                /\ pc' = "loop"
                /\ exc' = exc
    /\ UNCHANGED <<fn, cmd, kwargs, data, cmd_spec, packet_spec, packet, info, index, n,
                   samples, i, ret>>

SamplesLoop ==
    /\ fn = "parse_samples" /\ pc = "loop"
    /\ i < len_samples
    /\ LET r == ParseRecord(data, byte_pos, dio_enabled, adc_enabled)
       IN  IF r.exc.type # "None"
           THEN /\ exc' = r.exc
                /\ pc' = "raised"
                /\ UNCHANGED <<samples, byte_pos, i>>
           ELSE /\ samples' = Append(samples, r.sample)
                /\ byte_pos' = r.byte_pos
                /\ i' = i + 1
                /\ UNCHANGED <<pc, exc>>
    /\ UNCHANGED <<fn, cmd, kwargs, data, cmd_spec, packet_spec, packet, info, index,
                   n, len_samples, dio_enabled, adc_enabled, ret>>

SamplesReturn ==
    /\ fn = "parse_samples" /\ pc = "loop"
    /\ i >= len_samples
    /\ ret' = Some(samples)
    /\ pc' = "returned"
    /\ UNCHANGED <<fn, cmd, kwargs, data, cmd_spec, packet_spec, packet, info, index,
                   n, len_samples, dio_enabled, adc_enabled, samples, byte_pos, i, exc>>

\* the payloads tried: a count byte, two mask bytes and a run of bytes, or
\* a header cut short
IsSamplePayload(d) ==
    \/ \E c \in 0..MaxSamples, mh \in HighMasks, ml \in LowMasks,
          body \in SeqsUpTo(SampleBytes, MaxBodyLen) : d = <<c, mh, ml>> \o body
    \/ d = <<>>
    \/ \E c \in 0..MaxSamples : d = <<c>>
    \/ \E c \in 0..MaxSamples, mh \in HighMasks : d = <<c, mh>>

SamplesIdle ==
    /\ fn = "parse_samples" /\ pc = "call"
    /\ cmd = "" /\ kwargs = EmptyDict
    /\ cmd_spec = None /\ packet_spec = None
    /\ packet = <<>> /\ info = EmptyDict /\ index = 0 /\ n = 0
    /\ len_samples = 0 /\ dio_enabled = <<>> /\ adc_enabled = <<>>
    /\ samples = <<>> /\ byte_pos = 0 /\ i = 0
    /\ ret = None /\ exc = NoExc

InitSamples == IsSamplePayload(data) /\ SamplesIdle

NextSamples == SamplesHeader \/ SamplesLoop \/ SamplesReturn

SpecSamples == InitSamples /\ [][NextSamples]_vars

\* longest run of bytes after the header in the analog payloads
MaxAdcBody == 8

\* bytes the analog payloads are made of
AdcBytes == {3, 252}

\* mask bytes of the analog payloads: ADC0, ADC0+ADC1, ADC1+ADC5; none or
\* DIO3
AdcHighMasks == {2, 6, 68}
AdcLowMasks == {0, 8}

\* the analog payloads tried: one record holding any byte pair for ADC0
\* after the digital bytes of DIO8, or records of up to two lines over
\* AdcBytes
IsAdcPayload(d) ==
    \/ \E hi \in Byte, lo \in Byte : d = <<1, 3, 0, 85, 170, hi, lo>>
    \/ \E c \in 1..MaxSamples, mh \in AdcHighMasks, ml \in AdcLowMasks,
          body \in SeqsUpTo(AdcBytes, MaxAdcBody) : d = <<c, mh, ml>> \o body

InitAdc == IsAdcPayload(data) /\ SamplesIdle

SpecAdc == InitAdc /\ [][NextSamples]_vars

-----------------------------------------------------------------------------
(* The error taxonomy, as the exceptions the code raises *)

Done == pc \in {"returned", "raised"}

MissingField(e) ==
    e.type = "KeyError" /\ e.msg = "The expected field was not provided"

LengthMismatch(e) ==
    e.type = "ValueError" /\ e.msg = "The data provided was not bytes long"

UnknownResponseId(e) ==
    e.type = "KeyError" /\ e.msg = "Unrecognized response packet with id byte"

Truncated(e) ==
    e.type = "ValueError" /\ e.msg = "Response packet was shorter than expected"

Overlong(e) ==
    e.type = "ValueError" /\ e.msg = "Response packet was longer than expected"

-----------------------------------------------------------------------------
(* Properties of build_command *)

\* positions in layout L's order of its fixed-length fields
FixedPos(L) == {k \in 1..Len(L.order) : L[L.order[k]].has}

\* field at position k of L is supplied with a value of its declared length
ValidAt(L, kw, k) ==
    /\ L.order[k] \in DOMAIN kw
    /\ Len(kw[L.order[k]]) = L[L.order[k]].val

\* positions of the fixed-length fields that are absent from kw
AbsentPos(L, kw) == {k \in FixedPos(L) : L.order[k] \notin DOMAIN kw}

Min(S) == CHOOSE x \in S : \A y \in S : x <= y

\* the identifier byte, then the supplied values in declared order
RECURSIVE ExpectedPacket(_, _, _)
ExpectedPacket(L, kw, k) ==
    IF k = 0 THEN L.id
    ELSE ExpectedPacket(L, kw, k - 1)
         \o (IF L.order[k] \in DOMAIN kw THEN kw[L.order[k]] ELSE <<>>)

BuildEnded == fn = "build_command" /\ Done /\ cmd \in DOMAIN api_commands

\* C1 as stated: whenever a fixed-length field of the command's layout is
\* absent, build_command fails with MissingField and returns nothing.
C1_MissingFieldAlways ==
    (BuildEnded /\ AbsentPos(api_commands[cmd], kwargs) # {})
        => (pc = "raised" /\ MissingField(exc) /\ ~ret.has)

\* C1 amended: whenever a fixed-length field is absent, build_command fails
\* with MissingField or LengthMismatch and returns nothing; the error is
\* MissingField, naming the first absent field, whenever every fixed-length
\* field before the first absent one is supplied with its declared length.
\* No value is returned before the function ends.
C1_MissingFieldInOrder ==
    /\ (fn = "build_command" /\ pc # "returned") => ~ret.has
    /\ (BuildEnded /\ AbsentPos(api_commands[cmd], kwargs) # {})
        => LET L == api_commands[cmd]
               first == Min(AbsentPos(L, kwargs))
           IN  /\ pc = "raised" /\ ~ret.has
               /\ MissingField(exc) \/ LengthMismatch(exc)
               /\ (\A k \in FixedPos(L) : k < first => ValidAt(L, kwargs, k))
                    => /\ MissingField(exc)
                       /\ exc.args = <<L.order[first], L[L.order[first]].val>>

\* a valid frame_id was supplied, command is missing, and the call has failed
\* with MissingField
C1_Witness ==
    /\ fn = "build_command" /\ pc = "raised" /\ cmd = "at"
    /\ DOMAIN kwargs = {"frame_id", "parameter"}
    /\ kwargs["frame_id"] = <<65>>
    /\ MissingField(exc)

\* C2: when every fixed-length field is supplied and one of them has a byte
\* length other than the declared one (zero included), build_command fails
\* with LengthMismatch and returns nothing.
C2_LengthMismatchOnWrongSize ==
    (/\ BuildEnded
     /\ AbsentPos(api_commands[cmd], kwargs) = {}
     /\ \E k \in FixedPos(api_commands[cmd]) : ~ValidAt(api_commands[cmd], kwargs, k))
        => (pc = "raised" /\ LengthMismatch(exc) /\ ~ret.has)

\* C3: when every fixed-length field is supplied with its declared length,
\* build_command returns the identifier byte, the fixed-length values in
\* declared order and then the variable-length value if one is supplied;
\* build_command("at", frame_id="A", command="MY") is 08 41 4D 59.
C3_EncodeLayout ==
    /\ (BuildEnded /\ \A k \in FixedPos(api_commands[cmd]) :
                          ValidAt(api_commands[cmd], kwargs, k))
        => /\ pc = "returned" /\ ret.has
           /\ ret.val = ExpectedPacket(api_commands[cmd], kwargs,
                                       Len(api_commands[cmd].order))
           /\ "parameter" \notin DOMAIN kwargs
                => Len(ret.val) = 1 + 1 + 2
    /\ (BuildEnded /\ cmd = "at" /\ DOMAIN kwargs = {"frame_id", "command"}
        /\ kwargs["frame_id"] = <<65>> /\ kwargs["command"] = <<77, 89>>)
        => (ret.has /\ ret.val = <<8, 65, 77, 89>>)

\* an "at" command with a two-byte parameter has been encoded
C3_Witness ==
    /\ fn = "build_command" /\ pc = "returned" /\ cmd = "at"
    /\ DOMAIN kwargs = {"frame_id", "command", "parameter"}
    /\ Len(kwargs["parameter"]) = 2
    /\ ret.val = <<8, 65, 77, 89>> \o kwargs["parameter"]

-----------------------------------------------------------------------------
(* Properties of split_response *)

\* sum of the fixed field lengths of layout L
RECURSIVE FixedSumTo(_, _)
FixedSumTo(L, k) ==
    IF k = 0 THEN 0
    ELSE FixedSumTo(L, k - 1) + (IF L[L.order[k]].has THEN L[L.order[k]].val ELSE 0)

FixedSum(L) == FixedSumTo(L, Len(L.order))

LastIsFixed(L) == L[L.order[Len(L.order)]].has

SplitEnded == fn = "split_response" /\ Done

KnownResponse == Len(data) >= 1 /\ data[1] \in DOMAIN api_responses

\* C4: for a payload that selects a known layout, split_response fails with
\* Truncated when fewer bytes follow the identifier than the fixed fields
\* need, fails with Overlong when the last field is fixed-length and more
\* bytes follow, and for such a layout succeeds only at the exact length.
C4_TruncatedOverlong ==
    (SplitEnded /\ KnownResponse)
        => LET L == api_responses[data[1]]
           IN  /\ Len(data) - 1 < FixedSum(L)
                    => (pc = "raised" /\ Truncated(exc) /\ ~ret.has)
               /\ (LastIsFixed(L) /\ Len(data) - 1 > FixedSum(L))
                    => (pc = "raised" /\ Overlong(exc) /\ ~ret.has)
               /\ LastIsFixed(L)
                    => (pc = "returned" <=> Len(data) = 1 + FixedSum(L))

\* a status payload with two bytes too many has been refused as Overlong
C4_Witness ==
    /\ fn = "split_response" /\ pc = "raised"
    /\ Len(data) = 4 /\ data[1] = 138
    /\ Overlong(exc)

\* C5: split_response of the empty payload fails with Truncated.
C5_EmptyIsTruncated ==
    (SplitEnded /\ data = <<>>) => (pc = "raised" /\ Truncated(exc))

\* C6: a non-empty payload whose first byte is no known identifier fails
\* with UnknownResponseId naming that byte, whatever follows it, and nothing
\* is returned.
C6_UnknownResponseId ==
    (SplitEnded /\ Len(data) >= 1 /\ data[1] \notin DOMAIN api_responses)
        => /\ pc = "raised" /\ ~ret.has
           /\ UnknownResponseId(exc)
           /\ exc.args = <<data[1]>>

\* the payload 23 .. .. 8A, with an unknown first byte and a known last one,
\* has been refused
C6_Witness ==
    /\ fn = "split_response" /\ pc = "raised"
    /\ Len(data) = 4 /\ data[1] = 35 /\ data[4] = 138
    /\ UnknownResponseId(exc)

\* offset of the field at position k of layout L
FieldOffset(L, k) == 1 + FixedSumTo(L, k - 1)

\* the identifier byte followed by the stored values in declared order
RECURSIVE Rebuild(_, _, _, _)
Rebuild(L, id, inf, k) ==
    IF k = 0 THEN <<id>>
    ELSE Rebuild(L, id, inf, k - 1)
         \o (IF L.order[k] \in DOMAIN inf THEN inf[L.order[k]] ELSE <<>>)

\* C7: for a payload that selects a layout ending in a variable-length field
\* and holds all the fixed bytes, split_response succeeds (never Overlong);
\* each fixed field is the slice of its length at its offset, the variable
\* field is the rest when a byte remains and its key is absent otherwise, and
\* the identifier followed by the stored values is the payload.
C7_VariableTail ==
    (SplitEnded /\ KnownResponse)
        => LET L == api_responses[data[1]]
           IN  (~LastIsFixed(L) /\ Len(data) - 1 >= FixedSum(L))
                 => /\ pc = "returned" /\ ret.has /\ ~Overlong(exc)
                    /\ DOMAIN ret.val \subseteq {"id"} \cup {L.order[k] : k \in 1..Len(L.order)}
                    /\ ret.val["id"] = L.id
                    /\ \A k \in 1..Len(L.order) :
                         IF L[L.order[k]].has
                         THEN /\ L.order[k] \in DOMAIN ret.val
                              /\ ret.val[L.order[k]]
                                   = [j \in 1..L[L.order[k]].val |-> data[FieldOffset(L, k) + j]]
                         ELSE IF Len(data) - 1 > FixedSum(L)
                         THEN /\ L.order[k] \in DOMAIN ret.val
                              /\ ret.val[L.order[k]]
                                   = [j \in 1..(Len(data) - 1 - FixedSum(L))
                                        |-> data[1 + FixedSum(L) + j]]
                         ELSE L.order[k] \notin DOMAIN ret.val
                    /\ Rebuild(L, data[1], ret.val, Len(L.order)) = data

\* an at_response with no parameter byte has been decoded
C7_Witness ==
    /\ fn = "split_response" /\ pc = "returned"
    /\ Len(data) = 5 /\ data[1] = 136
    /\ DOMAIN ret.val = {"id", "frame_id", "command", "status"}

-----------------------------------------------------------------------------
(* Properties of parse_samples *)

\* bit k of byte x
Bit(x, k) == (x \div Pow2(k)) % 2 = 1

\* digital line 0..8 and analog line 0..5 enabled by mask bytes mh, ml
DioOn(mh, ml, line) == IF line = 8 THEN Bit(mh, 0) ELSE Bit(ml, line)
AdcOn(mh, k) == Bit(mh, k + 1)

AnyDio(mh, ml) == \E line \in 0..8 : DioOn(mh, ml, line)

\* bytes of the digital part of a record, and of a whole record
DigitalSize(mh, ml) == IF AnyDio(mh, ml) THEN 2 ELSE 0
RecordSize(mh, ml) ==
    DigitalSize(mh, ml) + 2 * Cardinality({k \in 0..5 : AdcOn(mh, k)})

\* 0-based offset of record r (1-based) in a payload with mask bytes mh, ml
RecordStart(mh, ml, r) == 3 + (r - 1) * RecordSize(mh, ml)

\* number of enabled analog lines below line k
AdcRank(mh, k) == Cardinality({j \in 0..(k - 1) : AdcOn(mh, j)})

SamplesEnded == fn = "parse_samples" /\ Done

\* the payload is shorter than its header and announced records
ShortPayload ==
    \/ Len(data) < 3
    \/ Len(data) < 3 + data[1] * RecordSize(data[2], data[3])

\* C8: for a payload holding at least its N announced records, parse_samples
\* returns N samples in record order; each has a boolean dio-n for exactly
\* the enabled digital lines, true iff the line's bit is set in the record's
\* two digital bytes.
C8_DigitalSamples ==
    (SamplesEnded /\ ~ShortPayload)
        => /\ pc = "returned" /\ ret.has
           /\ Len(ret.val) = data[1]
           /\ \A r \in 1..data[1] : \A line \in 0..8 :
                LET off == RecordStart(data[2], data[3], r)
                IN  IF DioOn(data[2], data[3], line)
                    THEN /\ DioKey(line) \in DOMAIN ret.val[r]
                         /\ ret.val[r][DioKey(line)]
                              = (IF line = 8 THEN Bit(data[off + 1], 0)
                                             ELSE Bit(data[off + 2], line))
                    ELSE DioKey(line) \notin DOMAIN ret.val[r]

\* two records of DIO0, DIO2, DIO4, DIO6 and DIO8 have been decoded, DIO8 set
\* in the first only and DIO0 in the second only
C8_Witness ==
    /\ fn = "parse_samples" /\ pc = "returned"
    /\ data = <<2, 1, 85, 85, 170, 170, 85>>
    /\ ret.val[1]["dio-8"] /\ ~ret.val[2]["dio-8"]
    /\ ~ret.val[1]["dio-0"] /\ ret.val[2]["dio-0"]

\* C9, the part that does not depend on the exception's kind: a payload
\* shorter than its header and N records makes parse_samples fail; no sample
\* list is returned from a missing or partial record.
C9_ShortPayloadFails ==
    (SamplesEnded /\ ShortPayload) => (pc = "raised" /\ ~ret.has)

\* C10: in every decoded record, each enabled analog line k has an entry
\* adc-k equal to (256*hi + lo) mod 1024, within 0..1023, where (hi, lo) is
\* the pair of the k-th enabled line after the record's digital bytes; a
\* disabled line has no entry.
C10_AnalogValues ==
    (fn = "parse_samples" /\ pc # "call" /\ Len(data) >= 3)
        => \A r \in 1..Len(samples) : \A k \in 0..5 :
             LET mh == data[2]
                 ml == data[3]
                 off == RecordStart(mh, ml, r) + DigitalSize(mh, ml)
                          + 2 * AdcRank(mh, k)
             IN  IF AdcOn(mh, k)
                 THEN /\ AdcKey(k) \in DOMAIN samples[r]
                      /\ samples[r][AdcKey(k)] \in 0..1023
                      /\ samples[r][AdcKey(k)]
                           = (256 * data[off + 1] + data[off + 2]) % 1024
                 ELSE AdcKey(k) \notin DOMAIN samples[r]

\* the pair FF FF, -1 as a signed reading, has been decoded to 1023
C10_Witness ==
    /\ fn = "parse_samples" /\ pc = "returned"
    /\ data = <<1, 3, 0, 85, 170, 255, 255>>
    /\ ret.val[1]["adc-0"] = 1023

=============================================================================
